---- MODULE Spec2Model ----
(***************************************************************************)
(* Replibyte entry point (replibyte/src/main.rs): main(), run() and the    *)
(* progress consumer show_progress_bar(), over a persistent datastore.     *)
(*                                                                         *)
(* One process run is: main opens and parses the configuration, run()      *)
(* builds the datastore, migrates, inits, creates the progress channel,    *)
(* possibly spawns the consumer thread, and dispatches one command.  The   *)
(* datastore (version marker, chunks, Index objects) outlives the process; *)
(* a new process may be started once the previous one has ended.           *)
(*                                                                         *)
(* The bodies of Migrator::migrate, commands::dump::{list,run,delete,      *)
(* restore_*} and the Datastore are not part of main.rs; they are modelled *)
(* from the design document (sections 4.2-4.6, 5) and marked as such.      *)
(***************************************************************************)
EXTENDS Integers, Sequences, FiniteSets, TLC

\* ---------------------------------------------------------------- bounds

\* Capacity of the progress channel.  main.rs:94 creates sync_channel(1000);
\* the model scales the capacity down and lets an operation emit more events
\* than the capacity, which is the only thing the number matters for.
Capacity == 1

\* The tool's format version, get_replibyte_version() (main.rs:89).
ToolVersion == 2

\* The largest number of chunks (= progress events) of one dump.
MaxChunks == Capacity + 1

\* ------------------------------------------------------------ vocabulary

DefaultName == "ts"
UserNames == {"a"}
AllNames == UserNames \cup {DefaultName}
NoName == "none"

DumpList == "dump_list"
DumpCreate == "dump_create"
DumpDelete == "dump_delete"
RestoreLocal == "restore_local"
RestoreRemote == "restore_remote"
TransformerList == "transformer_list"

RestoreCommands == {RestoreLocal, RestoreRemote}
SubCommands == {DumpList, DumpCreate, DumpDelete, TransformerList} \cup RestoreCommands

Terminal == {"exited", "panicked", "killed"}

VARIABLES
    \* the datastore, which outlives a process
    version,        \* VersionMarker: the stored format version
    chunks,         \* chunks[n]: sequence indices of the chunks stored for dump n
    index,          \* index[n]: 0 = no Index object; k = Index referencing chunks 1..k
    \* the process
    pc,             \* position of the main thread
    cmd,            \* args.sub_commands
    output,         \* args.output of a restore command
    name,           \* --name of dump create, or the dump a delete/restore names
    dump_name,      \* the datastore object's dump name
    rx_pb,          \* where the Receiver lives: "none", "run" (run's scope), "thread"
    queue,          \* buffer of the sync_channel
    total,          \* number of chunks of the running dump/restore/delete
    written,        \* chunks handled so far by the running operation
    anyFail,        \* delete: some chunk deletion failed
    listed,         \* result of commands::dump::list
    err,            \* the error run() returns: "none" or the failing step
    stderr,         \* what was printed to the error stream
    exit_code,      \* exit status of the process, -1 while it has not ended
    \* the consumer thread
    last_transferred_bytes,
    max_bytes,
    shown,          \* the pair the last poll logged
    polled,         \* "never", "msg" (last poll received an event) or "empty"
    \* history
    lastRecv,       \* the most recent event the consumer received, <<>> if none
    migrateCalls,
    initCalls,
    opCalls,
    consumers,      \* consumer threads spawned in this run
    migrated,       \* migrate() has returned Ok in this run
    dsOps,          \* datastore operations performed in this run
    leftover        \* dump create found chunks of its name without an Index

store == <<version, chunks, index>>
args == <<cmd, output, name>>
channel == <<rx_pb, queue>>
opState == <<total, written, anyFail, listed, leftover>>
consumer == <<last_transferred_bytes, max_bytes, shown, polled, lastRecv>>
calls == <<migrateCalls, initCalls, opCalls, consumers, migrated, dsOps>>

vars == <<version, chunks, index, pc, cmd, output, name, dump_name, rx_pb, queue,
          total, written, anyFail, listed, err, stderr, exit_code,
          last_transferred_bytes, max_bytes, shown, polled, lastRecv,
          migrateCalls, initCalls, opCalls, consumers, migrated, dsOps,
          leftover>>

Init ==
    /\ version \in 0..(ToolVersion + 1)
    /\ chunks = [n \in AllNames |-> {}]
    /\ index = [n \in AllNames |-> 0]
    /\ pc = "idle"
    /\ cmd = TransformerList
    /\ output = FALSE
    /\ name = NoName
    /\ dump_name = NoName
    /\ rx_pb = "none"
    /\ queue = <<>>
    /\ total = 0
    /\ written = 0
    /\ anyFail = FALSE
    /\ listed = {}
    /\ err = "none"
    /\ stderr = "none"
    /\ exit_code = -1
    /\ last_transferred_bytes = 0
    /\ max_bytes = 0
    /\ shown = <<0, 0>>
    /\ polled = "never"
    /\ lastRecv = <<>>
    /\ migrateCalls = 0
    /\ initCalls = 0
    /\ opCalls = 0
    /\ consumers = 0
    /\ migrated = FALSE
    /\ dsOps = {}
    /\ leftover = FALSE

\* ------------------------------------------------------- process start

\* The names a command line can carry for each subcommand.
ArgNames(c) ==
    IF c = DumpCreate THEN UserNames \cup {NoName}
    ELSE IF c \in {DumpDelete} \cup RestoreCommands THEN AllNames
    ELSE {NoName}

\* A process is started (CLI::parse, main.rs:56-58); everything of the
\* previous process is gone, the datastore is as it was left.
Exec ==
    /\ pc \in {"idle"} \cup Terminal
    /\ \E c \in SubCommands, o \in BOOLEAN, n \in AllNames \cup {NoName} :
        /\ n \in ArgNames(c)
        /\ o => c \in RestoreCommands
        /\ cmd' = c
        /\ output' = o
        /\ name' = n
    /\ pc' = "main_open"
    /\ dump_name' = NoName
    /\ rx_pb' = "none"
    /\ queue' = <<>>
    /\ total' = 0
    /\ written' = 0
    /\ anyFail' = FALSE
    /\ listed' = {}
    /\ err' = "none"
    /\ stderr' = "none"
    /\ exit_code' = -1
    /\ last_transferred_bytes' = 0
    /\ max_bytes' = 0
    /\ shown' = <<0, 0>>
    /\ polled' = "never"
    /\ lastRecv' = <<>>
    /\ migrateCalls' = 0
    /\ initCalls' = 0
    /\ opCalls' = 0
    /\ consumers' = 0
    /\ migrated' = FALSE
    /\ dsOps' = {}
    /\ leftover' = FALSE
    /\ UNCHANGED store

\* The process is killed from outside at any point of its run; its memory
\* is gone, what it wrote to the datastore stays.
Kill ==
    /\ pc \notin {"idle"} \cup Terminal
    /\ pc' = "killed"
    /\ rx_pb' = "none"
    /\ queue' = <<>>
    /\ total' = 0
    /\ written' = 0
    /\ anyFail' = FALSE
    /\ listed' = {}
    /\ leftover' = FALSE
    /\ shown' = <<0, 0>>
    /\ polled' = "never"
    /\ lastRecv' = <<>>
    /\ exit_code' = 137
    /\ UNCHANGED <<store, args, dump_name, err, stderr, last_transferred_bytes,
                   max_bytes, calls>>

\* ------------------------------------------------------------- main()

\* main.rs:60  File::open(args.config).expect("missing config file")
MainOpenConfig ==
    /\ pc = "main_open"
    /\ \E ok \in BOOLEAN :
        IF ok THEN pc' = "main_parse" /\ stderr' = stderr /\ exit_code' = exit_code
        ELSE pc' = "panicked" /\ stderr' = "missing config file" /\ exit_code' = 101
    /\ UNCHANGED <<store, args, dump_name, channel, opState, err,
                   consumer, calls>>

\* main.rs:61  serde_yaml::from_reader(file).expect("bad config file format")
MainParseConfig ==
    /\ pc = "main_parse"
    /\ \E ok \in BOOLEAN :
        IF ok THEN pc' = "run_build" /\ stderr' = stderr /\ exit_code' = exit_code
        ELSE pc' = "panicked" /\ stderr' = "bad config file format" /\ exit_code' = 101
    /\ UNCHANGED <<store, args, dump_name, channel, opState, err,
                   consumer, calls>>

\* main.rs:65-68 with a failure status after the error is printed.
MainReport_exitFailure ==
    /\ pc = "main_ret"
    /\ stderr' = IF err # "none" THEN err ELSE stderr
    /\ exit_code' = IF err # "none" THEN 1 ELSE 0
    /\ pc' = "exited"
    /\ UNCHANGED <<store, args, dump_name, channel, opState, err,
                   consumer, calls>>

\* main.rs:65-68 with the run started again after an error.
MainReport_retry ==
    /\ pc = "main_ret"
    /\ stderr' = IF err # "none" THEN err ELSE stderr
    /\ pc' = IF err # "none" THEN "run_build" ELSE "exited"
    /\ exit_code' = IF err # "none" THEN exit_code ELSE 0
    /\ UNCHANGED <<store, args, dump_name, channel, opState, err,
                   consumer, calls>>

\* main.rs:65-68  if let Err(err) = run(..) { eprintln!("{}", err) }, then
\* main returns; the process ends and takes the consumer thread with it.
MainReport ==
    /\ pc = "main_ret"
    /\ stderr' = IF err # "none" THEN err ELSE stderr
    /\ exit_code' = 0
    /\ pc' = "exited"
    /\ UNCHANGED <<store, args, dump_name, channel, opState, err,
                   consumer, calls>>

\* -------------------------------------------------------------- run()

\* The `?` operator: run() returns the error at once.
Fail(e) ==
    /\ err' = e
    /\ pc' = "main_ret"

\* The statement that follows the datastore construction (main.rs:89).
AfterBuild_initFirst ==
    pc' = "run_init"

AfterBuild ==
    pc' = "run_migrate"

\* main.rs:71-87  build the datastore from the configuration; any bad
\* backend parameter returns the error.  The datastore object starts with
\* its default (timestamp) dump name.
RunBuildDatastore ==
    /\ pc = "run_build"
    /\ \E ok \in BOOLEAN :
        IF ok THEN AfterBuild /\ dump_name' = DefaultName /\ err' = err
        ELSE Fail("build") /\ dump_name' = dump_name
    /\ UNCHANGED <<store, args, channel, opState, stderr, exit_code,
                   consumer, calls>>

\* main.rs:90  let _ = migrator.migrate()?;  -- what follows migrate's result
MigrateResult_ignored(ok) ==
    /\ migrated' = ok
    /\ pc' = "run_init"
    /\ err' = IF ok THEN err ELSE "migrate"

\* main.rs:90-92 with init left out after a successful migration.
MigrateResult_skipInit(ok) ==
    IF ok THEN migrated' = TRUE /\ pc' = "run_channel" /\ err' = err
    ELSE migrated' = migrated /\ Fail("migrate")

MigrateResult(ok) ==
    IF ok THEN migrated' = TRUE /\ pc' = "run_init" /\ err' = err
    ELSE migrated' = migrated /\ Fail("migrate")

\* main.rs:89-90  Migrator::new(..).migrate(): read the version marker and
\* compare it with the tool's version (design 4.5).
RunMigrate ==
    /\ pc = "run_migrate"
    /\ migrateCalls' = migrateCalls + 1
    /\ IF version > ToolVersion THEN MigrateResult(FALSE)
       ELSE IF version = ToolVersion THEN MigrateResult(TRUE)
       ELSE pc' = "migrate_step" /\ migrated' = migrated /\ err' = err
    /\ UNCHANGED <<store, args, dump_name, channel, opState, stderr, exit_code, consumer,
                   initCalls, opCalls, consumers, dsOps>>

\* A migration step that writes the marker before its own work is known
\* to have completed.
MigrateStep_markerOnFailure ==
    /\ pc = "migrate_step"
    /\ version' = version + 1
    /\ \E ok \in BOOLEAN :
        IF ok /\ version + 1 < ToolVersion
        THEN pc' = pc /\ migrated' = migrated /\ err' = err
        ELSE MigrateResult(ok)
    /\ UNCHANGED <<chunks, index, args, dump_name, channel, opState, stderr, exit_code,
                   consumer, migrateCalls, initCalls, opCalls, consumers, dsOps>>

\* One migration step v -> v+1 (design 4.5): the marker is written after the
\* step completed; a failing step leaves the marker and is fatal.
MigrateStep ==
    /\ pc = "migrate_step"
    /\ \E ok \in BOOLEAN :
        IF ok
        THEN /\ version' = version + 1
             /\ IF version + 1 = ToolVersion THEN MigrateResult(TRUE)
                ELSE pc' = pc /\ migrated' = migrated /\ err' = err
        ELSE version' = version /\ MigrateResult(FALSE)
    /\ UNCHANGED <<chunks, index, args, dump_name, channel, opState, stderr, exit_code, consumer,
                   migrateCalls, initCalls, opCalls, consumers, dsOps>>

\* main.rs:92  let _ = datastore.init()?;  -- what follows init's result
InitResult_ignored(ok) ==
    /\ pc' = "run_channel"
    /\ err' = IF ok THEN err ELSE "init"

InitResult(ok) ==
    IF ok THEN pc' = "run_channel" /\ err' = err
    ELSE Fail("init")

\* main.rs:92  datastore.init()
RunInit ==
    /\ pc = "run_init"
    /\ initCalls' = initCalls + 1
    /\ dsOps' = dsOps \cup {"init"}
    /\ \E ok \in BOOLEAN : InitResult(ok)
    /\ UNCHANGED <<store, args, dump_name, channel, opState, stderr, exit_code, consumer,
                   migrateCalls, opCalls, consumers, migrated>>

\* main.rs:94  mpsc::sync_channel(1000): an empty bounded buffer; the
\* Receiver rx_pb is a local of run().
RunChannel ==
    /\ pc = "run_channel"
    /\ queue' = <<>>
    /\ rx_pb' = "run"
    /\ pc' = "run_spawn"
    /\ UNCHANGED <<store, args, dump_name, opState, err, stderr, exit_code,
                   consumer, calls>>

\* main.rs:96-110  which commands get a consumer thread: every arm but the
\* two restore arms, whose bodies `if args.output {}` do nothing either way.
SpawnsProgress_always(c, o) ==
    TRUE

SpawnsProgress(c, o) ==
    c \notin RestoreCommands

\* main.rs:96-110  thread::spawn(move || show_progress_bar(rx_pb)); the
\* Receiver moves into the thread, otherwise it stays alive in run().
RunSpawn ==
    /\ pc = "run_spawn"
    /\ IF SpawnsProgress(cmd, output)
       THEN rx_pb' = "thread" /\ consumers' = consumers + 1
       ELSE rx_pb' = rx_pb /\ consumers' = consumers
    /\ pc' = "run_op"
    /\ UNCHANGED <<store, args, dump_name, queue, opState, err, stderr, exit_code, consumer,
                   migrateCalls, initCalls, opCalls, migrated, dsOps>>

\* ------------------------------------------------ the progress channel

\* A send that never waits for room (an unbounded channel).
SendBlocks_never ==
    FALSE

\* SyncSender::send blocks while the buffer is full and the Receiver is alive.
SendBlocks ==
    /\ rx_pb # "none"
    /\ Len(queue) >= Capacity

\* main.rs:112-114  progress_callback: let _ = tx_pb.send((bytes, max_bytes));
\* with the Receiver gone, send returns an error that is dropped.
progress_callback(bytes, max) ==
    /\ ~SendBlocks
    /\ queue' = IF rx_pb = "none" THEN queue ELSE Append(queue, <<bytes, max>>)

\* main.rs:45-52  one iteration of show_progress_bar's loop: try_recv, log
\* the pair, sleep.  On an empty buffer the pair is
\* (last_transferred_bytes, _max_bytes), which are never assigned.
show_progress_bar ==
    /\ rx_pb = "thread"
    /\ pc \notin {"idle"} \cup Terminal
    /\ IF queue # <<>>
       THEN /\ shown' = Head(queue)
            /\ lastRecv' = Head(queue)
            /\ queue' = Tail(queue)
            /\ polled' = "msg"
       ELSE /\ shown' = <<last_transferred_bytes, max_bytes>>
            /\ lastRecv' = lastRecv
            /\ queue' = queue
            /\ polled' = "empty"
    /\ UNCHANGED <<store, pc, args, dump_name, rx_pb, opState, err, stderr, exit_code,
                   last_transferred_bytes, max_bytes, calls>>

\* ------------------------------------------ the command (main.rs:116-145)

\* main.rs:118-121  commands::dump::list(&mut datastore)?: enumerate the
\* Index objects (design 4.6).
OpList ==
    /\ pc = "run_op"
    /\ cmd = DumpList
    /\ opCalls' = opCalls + 1
    /\ dsOps' = dsOps \cup {"list"}
    /\ \E ok \in BOOLEAN :
        IF ok THEN /\ listed' = {n \in AllNames : index[n] # 0}
                   /\ pc' = "main_ret"
                   /\ err' = err
        ELSE listed' = listed /\ Fail("list failed")
    /\ UNCHANGED <<store, args, dump_name, channel, total, written, anyFail, leftover, stderr, exit_code,
                   consumer, migrateCalls, initCalls, consumers, migrated>>

\* main.rs:123-125  if let Some(name) = &args.name { datastore.set_dump_name(..) }
SetDumpName_skipped ==
    /\ dump_name' = dump_name
    /\ dsOps' = dsOps

SetDumpName ==
    IF name # NoName
    THEN dump_name' = name /\ dsOps' = dsOps \cup {"set_dump_name"}
    ELSE dump_name' = dump_name /\ dsOps' = dsOps

\* main.rs:122-126  the DumpCommand::Create arm up to the call of the pipeline
OpCreate ==
    /\ pc = "run_op"
    /\ cmd = DumpCreate
    /\ SetDumpName
    /\ pc' = "create_run"
    /\ UNCHANGED <<store, args, channel, opState, err, stderr, exit_code, consumer,
                   migrateCalls, initCalls, opCalls, consumers, migrated>>

\* What the pipeline writes when it starts: nothing; the Index is the last
\* object written (design 4.6).
CreateStartWrites_indexFirst(n) ==
    index' = [index EXCEPT ![dump_name] = n]

CreateStartWrites(n) ==
    index' = index

\* main.rs:127  commands::dump::run(args, datastore, config, progress_callback)
\* starts: the configuration is validated before streaming (design 4.1) and
\* the dump will have n chunks.
CreateRun ==
    /\ pc = "create_run"
    /\ opCalls' = opCalls + 1
    /\ dsOps' = dsOps \cup {"dump"}
    /\ \E n \in 0..MaxChunks :
        IF n > 0
        THEN /\ total' = n
             /\ written' = 0
             /\ leftover' = (index[dump_name] = 0 /\ chunks[dump_name] # {})
             /\ pc' = "create_chunk"
             /\ err' = err
             /\ CreateStartWrites(n)
        ELSE /\ total' = total
             /\ written' = written
             /\ leftover' = leftover
             /\ index' = index
             /\ Fail("configuration error")
    /\ UNCHANGED <<version, chunks, args, dump_name, channel, anyFail, listed, stderr, exit_code,
                   consumer, migrateCalls, initCalls, consumers, migrated>>

\* Chunked Writer (design 4.2): flush the next chunk under its sequence key.
CreateWriteChunk ==
    /\ pc = "create_chunk"
    /\ \E ok \in BOOLEAN :
        IF ok
        THEN /\ chunks' = [chunks EXCEPT ![dump_name] = @ \cup {written + 1}]
             /\ written' = written + 1
             /\ pc' = "create_emit"
             /\ err' = err
        ELSE /\ chunks' = chunks
             /\ written' = written
             /\ Fail("chunk write failed")
    /\ UNCHANGED <<version, index, args, dump_name, channel, total, anyFail, listed, leftover,
                   stderr, exit_code, consumer, calls>>

\* Chunked Writer (design 4.2): after every chunk flush a ProgressEvent is
\* emitted through the callback; the last one carries the total.
CreateEmit ==
    /\ pc = "create_emit"
    /\ progress_callback(written, total)
    /\ pc' = IF written = total THEN "create_index" ELSE "create_chunk"
    /\ UNCHANGED <<store, args, dump_name, rx_pb, opState, err, stderr, exit_code,
                   consumer, calls>>

\* Orchestrator dump (design 4.6): after all tables succeeded the Index is
\* written; this is the commit of visibility.
CreateWriteIndex ==
    /\ pc = "create_index"
    /\ \E ok \in BOOLEAN :
        IF ok
        THEN /\ index' = [index EXCEPT ![dump_name] = total]
             /\ pc' = "main_ret"
             /\ err' = err
        ELSE /\ index' = index
             /\ Fail("index write failed")
    /\ UNCHANGED <<version, chunks, args, dump_name, channel, opState, stderr, exit_code,
                   consumer, calls>>

\* main.rs:129  commands::dump::delete(datastore, args) starts: resolve the Index.
OpDelete ==
    /\ pc = "run_op"
    /\ cmd = DumpDelete
    /\ opCalls' = opCalls + 1
    /\ dsOps' = dsOps \cup {"delete"}
    /\ IF index[name] = 0
       THEN Fail("no such dump") /\ UNCHANGED <<total, written, anyFail>>
       ELSE /\ total' = index[name]
            /\ written' = 0
            /\ anyFail' = FALSE
            /\ pc' = "delete_chunk"
            /\ err' = err
    /\ UNCHANGED <<store, args, dump_name, channel, listed, leftover, stderr, exit_code, consumer,
                   migrateCalls, initCalls, consumers, migrated>>

\* A delete that gives up at the first chunk it cannot remove.
DeleteChunk_stopAtFailure ==
    /\ pc = "delete_chunk"
    /\ \E ok \in BOOLEAN :
        IF ok
        THEN /\ chunks' = [chunks EXCEPT ![name] = @ \ {written + 1}]
             /\ anyFail' = anyFail
             /\ written' = written + 1
             /\ pc' = IF written + 1 = total THEN "delete_index" ELSE "delete_chunk"
        ELSE /\ chunks' = chunks
             /\ anyFail' = TRUE
             /\ written' = written
             /\ pc' = "delete_index"
    /\ UNCHANGED <<version, index, args, dump_name, channel, total, listed, leftover, err,
                   stderr, exit_code, consumer, calls>>

\* Orchestrator delete (design 4.6): the chunks the Index references are
\* removed first; a failing removal is remembered and the rest is still tried.
DeleteChunk ==
    /\ pc = "delete_chunk"
    /\ \E ok \in BOOLEAN :
        IF ok
        THEN /\ chunks' = [chunks EXCEPT ![name] = @ \ {written + 1}]
             /\ anyFail' = anyFail
        ELSE /\ chunks' = chunks
             /\ anyFail' = TRUE
    /\ written' = written + 1
    /\ pc' = IF written + 1 = total THEN "delete_index" ELSE "delete_chunk"
    /\ UNCHANGED <<version, index, args, dump_name, channel, total, listed, leftover, err, stderr, exit_code,
                   consumer, calls>>

\* Orchestrator delete (design 4.6): then the Index itself is removed;
\* overall failure is reported if a chunk could not be removed.
DeleteIndex ==
    /\ pc = "delete_index"
    /\ IF anyFail
       THEN index' = index /\ Fail("delete incomplete")
       ELSE \E ok \in BOOLEAN :
            IF ok
            THEN /\ index' = [index EXCEPT ![name] = 0]
                 /\ pc' = "main_ret"
                 /\ err' = err
            ELSE index' = index /\ Fail("index delete failed")
    /\ UNCHANGED <<version, chunks, args, dump_name, channel, opState, stderr, exit_code,
                   consumer, calls>>

\* main.rs:130-137  commands::dump::restore_local / restore_remote start:
\* resolve the Index of the dump.
OpRestore ==
    /\ pc = "run_op"
    /\ cmd \in RestoreCommands
    /\ opCalls' = opCalls + 1
    /\ dsOps' = dsOps \cup {"restore"}
    /\ IF index[name] = 0
       THEN Fail("no such dump") /\ UNCHANGED <<total, written>>
       ELSE /\ total' = index[name]
            /\ written' = 0
            /\ pc' = "restore_chunk"
            /\ err' = err
    /\ UNCHANGED <<store, args, dump_name, channel, anyFail, listed, leftover, stderr, exit_code, consumer,
                   migrateCalls, initCalls, consumers, migrated>>

\* Chunked Reader (design 4.3): fetch the next referenced chunk in sequence
\* order; a missing chunk or a failed fetch aborts the replay.
RestoreChunk ==
    /\ pc = "restore_chunk"
    /\ IF written + 1 \notin chunks[name]
       THEN written' = written /\ Fail("missing chunk")
       ELSE \E ok \in BOOLEAN :
            IF ok THEN written' = written + 1 /\ pc' = "restore_emit" /\ err' = err
            ELSE written' = written /\ Fail("chunk fetch failed")
    /\ UNCHANGED <<store, args, dump_name, channel, total, anyFail, listed, leftover, stderr, exit_code,
                   consumer, calls>>

\* The restore pipeline reports its progress through the callback after
\* every chunk replayed.
RestoreEmit ==
    /\ pc = "restore_emit"
    /\ progress_callback(written, total)
    /\ pc' = IF written = total THEN "main_ret" ELSE "restore_chunk"
    /\ UNCHANGED <<store, args, dump_name, rx_pb, opState, err, stderr, exit_code,
                   consumer, calls>>

\* main.rs:139-144  let _ = commands::transformer::list(); Ok(())
OpTransformerList ==
    /\ pc = "run_op"
    /\ cmd = TransformerList
    /\ opCalls' = opCalls + 1
    /\ pc' = "main_ret"
    /\ UNCHANGED <<store, args, dump_name, channel, opState, err, stderr, exit_code, consumer,
                   migrateCalls, initCalls, consumers, migrated, dsOps>>

\* ------------------------------------------------------- specification

\* The steps of the main thread.
MainThread ==
    \/ MainOpenConfig
    \/ MainParseConfig
    \/ RunBuildDatastore
    \/ RunMigrate
    \/ MigrateStep
    \/ RunInit
    \/ RunChannel
    \/ RunSpawn
    \/ OpList
    \/ OpCreate
    \/ CreateRun
    \/ CreateWriteChunk
    \/ CreateEmit
    \/ CreateWriteIndex
    \/ OpDelete
    \/ DeleteChunk
    \/ DeleteIndex
    \/ OpRestore
    \/ RestoreChunk
    \/ RestoreEmit
    \/ OpTransformerList
    \/ MainReport

\* The steps of the threads of the process.
Process ==
    \/ MainThread
    \/ show_progress_bar

Next ==
    \/ Exec
    \/ Kill
    \/ Process

Spec == Init /\ [][Next]_vars

\* ------------------------------------------------------------- claims

Running == pc \notin {"idle"} \cup Terminal
Returned == pc \in {"main_ret", "exited"}
EmitPoints == {"create_emit", "restore_emit"}
CreatePipeline == {"create_run", "create_chunk", "create_emit", "create_index"}
StartupErrors == {"build", "migrate", "init"}

\* C1: emitting a progress event never blocks the pipeline: at no point is
\* the producer inside progress_callback waiting for room in the buffer,
\* whatever the command, however many events are buffered, consumer or not.
C1_CallbackNeverBlocks ==
    ~(pc \in EmitPoints /\ SendBlocks)

\* C2: every process run terminates, progress reporting never stalls the
\* operation: as long as the run has not ended, some thread of the process
\* can take a step (a run in which no thread can ever step never returns).
C2_RunNeverStalls ==
    Running => ENABLED Process

\* C3: last-value visibility: the pair a poll reports is the most recent
\* event the consumer has received; in particular a poll that finds the
\* buffer empty after an event was received reports that event, not (0, 0).
C3_LastValueVisible ==
    (polled # "never" /\ lastRecv # <<>>) => shown = lastRecv

\* C4: migrate() has been invoked and has returned successfully before any
\* other datastore operation (init, set_dump_name, list, dump, delete,
\* restore) is performed in the run.
C4_MigrateFirst ==
    /\ dsOps # {} => (migrated /\ migrateCalls = 1)
    /\ pc \in {"run_channel", "run_spawn", "run_op", "create_run", "create_chunk",
               "create_emit", "create_index", "delete_chunk", "delete_index",
               "restore_chunk", "restore_emit"} => migrated

C4_Witness ==
    /\ dsOps = {"init", "set_dump_name", "dump"}
    /\ migrated
    /\ pc = "create_index"

\* C5: a startup failure (building the datastore, migrate, init) makes run()
\* return that error with no later step executed: no init after a failed
\* build or migration, no migrate after a failed build, and no command
\* operation, channel or progress consumer after any of them.
C5_StartupFailureAborts ==
    err \in StartupErrors =>
        /\ pc \in {"main_ret", "exited", "killed"}
        /\ pc = "exited" => stderr = err
        /\ opCalls = 0
        /\ consumers = 0
        /\ rx_pb = "none"
        /\ dsOps \subseteq {"init"}
        /\ err # "init" => (initCalls = 0 /\ dsOps = {})
        /\ err = "build" => (migrateCalls = 0 /\ ~migrated)
        /\ err = "migrate" => ~migrated

C5_Witness ==
    /\ err = "migrate"
    /\ version < ToolVersion
    /\ pc = "exited"

\* C6: any top-level failure of a run (opening or parsing the configuration,
\* backend parameters, migration, init, the command's operation) is printed
\* to the error stream and the process ends in a controlled way, never in a
\* panic.
C6_FailuresAreControlled ==
    /\ pc # "panicked"
    /\ (pc = "exited" /\ err # "none") => stderr = err

\* C7: for a restore command with --output set no progress consumer is
\* ever started, so no progress event is ever displayed.
C7_OutputNoConsumer ==
    (cmd \in RestoreCommands /\ output) =>
        /\ consumers = 0
        /\ rx_pb # "thread"
        /\ polled = "never"

C7_Witness ==
    /\ cmd \in RestoreCommands
    /\ output
    /\ pc = "exited"
    /\ err = "none"
    /\ total > 0
    /\ written = total

\* C8: no automatic retry: a run invokes at most one command operation, at
\* most once (and migrate and init at most once), and once run() has an
\* error the run only returns and reports it: nothing is started again.
C8_NoRetry ==
    /\ opCalls <= 1
    /\ migrateCalls <= 1
    /\ initCalls <= 1
    /\ Cardinality(dsOps \ {"init", "set_dump_name"}) <= 1
    /\ err # "none" => pc \in {"main_ret", "exited", "killed"}

C8_Witness ==
    /\ err = "chunk write failed"
    /\ written > 0
    /\ opCalls = 1
    /\ pc = "exited"

\* C9: for dump create --name N the datastore's dump name is N when the
\* pipeline starts and while it runs, set after migrate and init; without
\* --name the entry point does not set it and it is the default name; no
\* other subcommand changes the dump name.
C9_DumpName ==
    /\ pc \in CreatePipeline =>
           dump_name = (IF name # NoName THEN name ELSE DefaultName)
    /\ "set_dump_name" \in dsOps =>
           (cmd = DumpCreate /\ name # NoName /\ migrated /\ initCalls = 1)
    /\ (cmd # DumpCreate \/ name = NoName \/ pc \notin CreatePipeline \cup {"main_ret"} \cup Terminal) =>
           dump_name \in {NoName, DefaultName}

C9_Witness ==
    /\ pc = "create_run"
    /\ name \in UserNames
    /\ dump_name = name
    /\ opCalls = 0

\* Every chunk the Index of dump n references exists.
IndexedChunksExist(n) ==
    index[n] # 0 => (1..index[n]) \subseteq chunks[n]

\* C10 as stated: in every reachable state an Index is present only if
\* every chunk it references exists.
C10_IndexImpliesChunks ==
    \A n \in AllNames : IndexedChunksExist(n)

\* C10 (amended): an Index becomes visible only in the commit step of a
\* dump, when every chunk it references exists, so a dump that ended
\* before that step shows no entry in list(); a referenced chunk of a
\* visible Index goes missing only through a delete of that dump; list()
\* shows exactly the dumps with an Index; and a dump create that returns Ok
\* has its Index and all its chunks, leftover orphan chunks or not.
C10_AtomicVisibility ==
    /\ [](/\ (cmd = DumpList /\ Returned /\ err = "none") =>
                 listed = {n \in AllNames : index[n] # 0}
          /\ (cmd = DumpCreate /\ Returned /\ err = "none") =>
                 (index[dump_name] = total /\ IndexedChunksExist(dump_name))
          /\ (cmd = DumpCreate /\ pc \in CreatePipeline /\ leftover) =>
                 index[dump_name] = 0)
    /\ [][\A n \in AllNames :
            /\ index'[n] # index[n] => pc \in {"create_index", "delete_index"}
            /\ (index'[n] # index[n] /\ index'[n] # 0) =>
                   (pc = "create_index" /\ (1..index'[n]) \subseteq chunks'[n])
            /\ (IndexedChunksExist(n) /\ ~IndexedChunksExist(n)') =>
                   (pc = "delete_chunk" /\ name = n)]_vars

C10_Witness ==
    /\ cmd = DumpCreate
    /\ leftover
    /\ pc = "exited"
    /\ err = "none"
    /\ index[dump_name] = total

\* C11: migration commit discipline: the version marker never decreases
\* and changes only by a completed step, from v to v+1 with v below the
\* tool's version (in order, none skipped); a failing step leaves the
\* marker where it was and migrate() returns the fatal error, once, with
\* no retry; migrate() on a store already at the tool's version writes
\* nothing, and a run that passed migration has the store at that version.
C11_MigrationCommit ==
    /\ [](/\ migrated => version = ToolVersion
          /\ migrateCalls <= 1
          /\ err = "migrate" => (/\ pc \in {"main_ret", "exited", "killed"}
                                 /\ version # ToolVersion
                                 /\ ~migrated)
          /\ pc = "migrate_step" => version < ToolVersion)
    /\ [][/\ version' >= version
          /\ version' # version =>
                 (/\ pc = "migrate_step"
                  /\ version' = version + 1
                  /\ version < ToolVersion
                  /\ err' = "none")
          /\ (pc = "migrate_step" /\ err' = "migrate") => version' = version
          /\ (pc \in {"run_migrate", "migrate_step"} /\ version >= ToolVersion) =>
                 store' = store]_vars

C11_Witness ==
    /\ err = "migrate"
    /\ pc = "exited"
    /\ migrateCalls = 1
    /\ 0 < version
    /\ version < ToolVersion

\* C12: delete removes the Index only after it has attempted to remove
\* every chunk the Index references, and only if none of the removals
\* failed; after a failed removal it still attempts the remaining chunks
\* and reports overall failure; a restore of a dump whose Index references
\* a missing chunk fails with the missing-chunk error when it reaches that
\* chunk and never returns Ok: a restore that returns Ok has replayed every
\* chunk of the Index.
C12_DeleteThenRestore ==
    /\ [](/\ (cmd = DumpDelete /\ pc = "delete_index") =>
                 (written = total /\ total = index[name])
          /\ (cmd = DumpDelete /\ anyFail /\ Returned) =>
                 (err = "delete incomplete" /\ written = total /\ index[name] # 0)
          /\ (cmd = DumpDelete /\ Returned /\ err = "none") =>
                 (/\ index[name] = 0
                  /\ written = total
                  /\ (1..total) \cap chunks[name] = {})
          /\ (cmd \in RestoreCommands /\ pc \in {"restore_chunk", "restore_emit"}) =>
                 (total = index[name] /\ (1..written) \subseteq chunks[name])
          /\ (cmd \in RestoreCommands /\ Returned /\ err = "none") =>
                 (/\ index[name] # 0
                  /\ written = index[name]
                  /\ IndexedChunksExist(name)))
    /\ [][/\ \A n \in AllNames :
                (index[n] # 0 /\ index'[n] = 0) =>
                    (pc = "delete_index" /\ name = n /\ written = index[n] /\ ~anyFail)
          /\ (pc = "delete_chunk" /\ pc' \notin {"delete_chunk", "killed"}) =>
                 (pc' = "delete_index" /\ written' = total /\ (anyFail => anyFail'))
          /\ (pc = "delete_chunk" /\ pc' = "delete_chunk") =>
                 (written' \in {written, written + 1} /\ (anyFail => anyFail'))
          /\ (/\ pc = "restore_chunk"
              /\ written + 1 \notin chunks[name]
              /\ pc' \notin {"restore_chunk", "killed"}) =>
                 (err' = "missing chunk" /\ pc' = "main_ret")]_vars

C12_Witness ==
    /\ cmd \in RestoreCommands
    /\ pc = "exited"
    /\ err = "missing chunk"
    /\ stderr = "missing chunk"
    /\ written > 0
    /\ index[name] > written

\* C13: progress display is skipped only when output is true: for every
\* command but a restore with --output, in particular a restore without
\* --output, a progress consumer has been started before the command's
\* operation begins.
C13_ProgressUnlessOutput ==
    (/\ ~(cmd \in RestoreCommands /\ output)
     /\ (opCalls > 0 \/ pc \in {"run_op", "create_run"})) =>
        consumers = 1

\* C14: in a run where a progress consumer was started, the final progress
\* event of the operation (transferred = total) has been observed by the
\* consumer when the process ends, however many events were still queued
\* when the operation returned.
C14_FinalEventObserved ==
    (/\ pc = "exited"
     /\ consumers = 1
     /\ cmd = DumpCreate
     /\ err = "none") =>
        lastRecv = <<total, total>>

\* C15: init() is called exactly once in every run that passes migration,
\* for every subcommand, after migrate() succeeded and before the progress
\* channel is created, a consumer is spawned or the command's operation
\* starts.
C15_InitOnce ==
    /\ initCalls <= 1
    /\ initCalls = 1 => (migrated /\ migrateCalls = 1)
    /\ pc = "run_init" => (initCalls = 0 /\ migrated)
    /\ initCalls = 0 => (rx_pb = "none" /\ consumers = 0 /\ opCalls = 0)
    /\ pc \in {"run_channel", "run_spawn", "run_op", "delete_chunk", "delete_index",
               "restore_chunk", "restore_emit"} \cup CreatePipeline => initCalls = 1
    /\ (Returned /\ migrated) => initCalls = 1

C15_Witness ==
    /\ cmd = TransformerList
    /\ pc = "exited"
    /\ err = "none"
    /\ opCalls = 1
    /\ initCalls = 1

\* C16: the number of progress events buffered between the pipeline and
\* the consumer never exceeds the capacity of the channel, and there is at
\* most one consumer thread for it.
C16_BoundedQueue ==
    /\ Len(queue) <= Capacity
    /\ consumers <= 1
    /\ rx_pb = "thread" => consumers = 1

C16_Witness ==
    /\ pc = "create_emit"
    /\ Len(queue) = Capacity
    /\ written = Capacity + 1
    /\ consumers = 1

\* C17: when run() returns an error main prints it and returns normally:
\* the process ends with exit status 0, as after a run that succeeded, and
\* the failure shows only in the printed message.
C17_ErrorExitsZero ==
    /\ pc = "exited" => (exit_code = 0 /\ stderr = err)
    /\ exit_code = 0 => pc = "exited"

C17_Witness ==
    /\ pc = "exited"
    /\ err # "none"
    /\ stderr = err
    /\ exit_code = 0

====
